---- MODULE Spec2Model ----
(***************************************************************************)
(* Model of the Vision-OPs fine-tuning pipeline:                           *)
(*   - src/model/update_model_stages.py   (registry stage updater)         *)
(*   - src/train/fine_tune_model.py       (main, run_train)                *)
(*   - src/model/object_detection_model.py (model wrapper)                 *)
(*   - src/data/image_dataloader.py       (ImageBBoxDataset.__getitem__)   *)
(***************************************************************************)
EXTENDS Integers, Sequences, FiniteSets, TLC

\* ------------------------------------------------------------------ bounds
MaxVersions == 3     \* registered versions of the model
MaxRuns == 2         \* tracker runs (run identifiers 1..MaxRuns)
MaxEpochs == 2       \* configured epoch count
MaxScore == 2        \* evaluation scores are 0..MaxScore
NumImages == 2       \* rows of the image index (img_df)
MaxRows == 3         \* rows of the box index (bbox_df)

VARIABLES
    registry,     \* model registry: version number -> [stage, run_id, score]
    regBefore,    \* registry as it was when the last stage update started
    calls,        \* transition_model_version_stage calls of the last stage update
    ret,          \* what the last stage update returned (or raised)
    prevRet,      \* what the stage update before it returned
    prevCalls,    \* the transition calls of the stage update before it
    consecutive,  \* the last two operations on the registry were both stage updates
    cfg,          \* param_config: the settings main reads
    ckptFile,     \* the checkpoint file in save_dir (NoFile when it does not exist)
    pc,           \* "idle", "loop" (inside run_train), "done", "error", "staged"
    error,        \* the exception that ended main, if any
    run,          \* number of tracker runs started so far (the active run's id)
    model,        \* what faster_rcnn_mob_model_for_n_classes gave main
    checkpoint,   \* the checkpoint main passed to run_train
    ckptExisted,  \* checkpoint_path.exists() as main found it
    start_epoch,  \* run_train local
    best_epoch_score, \* run_train local
    epoch,        \* run_train loop variable (0 before the first iteration)
    events,       \* one record per loop iteration of the current run_train call
    prevEpochs,   \* the epoch numbers of the run_train call before the current one
    dataset,      \* an ImageBBoxDataset: [img_df, bbox_df, img_transforms, bbox_transform]
    item,         \* what the last dataset[idx] gave
    inv           \* step-wise stage updates: invocation -> [pc, info, latest, i, ret]

regVars == <<registry, regBefore, calls, ret, prevRet, prevCalls, consecutive>>
histVars == <<regBefore, calls, ret, prevRet, prevCalls, consecutive>>
trainVars == <<cfg, ckptFile, pc, error, run, model, checkpoint, ckptExisted, start_epoch,
               best_epoch_score, epoch, events, prevEpochs>>
dataVars == <<dataset, item>>
concVars == <<inv>>
vars == <<regVars, trainVars, dataVars, concVars>>

\* ------------------------------------------------- the model registry (MLflow)
RegName == "best_model"
Stages == {"None", "Staging", "Production", "Archived"}
RunIds == {1, 2}     \* run identifiers of the versions other runs registered
NoRet == [kind |-> "none"]
Versions(reg) == 1..Len(reg)

\* The ModelVersion entity the client hands out for version v.
ModelVersion(reg, v) ==
    [name |-> RegName, version |-> v,
     current_stage |-> reg[v].stage, run_id |-> reg[v].run_id]

\* MlflowClient.get_latest_versions(name) with no stages given: the latest
\* (highest-numbered) version of each stage, not every version.
LatestPerStage(reg) ==
    {v \in Versions(reg) :
        \A w \in Versions(reg) : reg[w].stage = reg[v].stage => w <= v}

Orderings(S) ==
    {p \in [1..Cardinality(S) -> S] :
        \A i, j \in 1..Cardinality(S) : i # j => p[i] # p[j]}

\* The lists the call may return: the registry fixes no order.
get_latest_versions(reg) ==
    {[i \in 1..Len(p) |-> ModelVersion(reg, p[i])] : p \in Orderings(LatestPerStage(reg))}

\* MlflowClient.transition_model_version_stage: re-stages that one version.
transition_model_version_stage(reg, version, stage) ==
    [reg EXCEPT ![version].stage = stage]

None == [kind |-> "none"]
NoFile == [kind |-> "nofile"]

\* Nothing has run yet.
TrainIdle ==
    /\ pc = "idle"
    /\ error = "no"
    /\ run = 0
    /\ model = None
    /\ checkpoint = None
    /\ ckptExisted = FALSE
    /\ start_epoch = 0
    /\ best_epoch_score = 0
    /\ epoch = 0
    /\ events = <<>>
    /\ prevEpochs = <<>>

RegIdle ==
    /\ registry = <<>>
    /\ regBefore = <<>>
    /\ calls = <<>>
    /\ ret = NoRet
    /\ prevRet = NoRet
    /\ prevCalls = <<>>
    /\ consecutive = FALSE

DataIdle ==
    /\ dataset = [img_df |-> <<>>, bbox_df |-> <<>>,
                  img_transforms |-> FALSE, bbox_transform |-> FALSE]
    /\ item = None

ConcIdle == inv = <<>>

Updated == ret.kind = "return"
ProductionVersions(reg) == {v \in Versions(reg) : reg[v].stage = "Production"}

\* Variant: min() in place of max().
model_latest_version_Min(info) ==
    CHOOSE x \in {info[i].version : i \in 1..Len(info)} :
        \A i \in 1..Len(info) : info[i].version >= x

\* max([m.version for m in model_registry_info])
model_latest_version(info) ==
    CHOOSE x \in {info[i].version : i \in 1..Len(info)} :
        \A i \in 1..Len(info) : info[i].version <= x

\* Variant: the latest version is transitioned even when already in Production.
TargetStage_Repromote(m, latest) ==
    IF m.version = latest THEN "Production"
    ELSE (IF m.current_stage = "Production" THEN "Archived" ELSE "keep")

\* Variant: every version but the latest is archived, whatever its stage.
TargetStage_ArchiveOthers(m, latest) ==
    IF m.version = latest
    THEN (IF m.current_stage = "Production" THEN "keep" ELSE "Production")
    ELSE (IF m.current_stage = "Archived" THEN "keep" ELSE "Archived")

\* Variant: the latest version is promoted but nothing is archived.
TargetStage_NoArchive(m, latest) ==
    IF m.version = latest
    THEN (IF m.current_stage = "Production" THEN "keep" ELSE "Production")
    ELSE "keep"

\* The stage one listed version is moved to by the update loop ("keep": no call).
TargetStage(m, latest) ==
    IF m.version = latest
    THEN (IF m.current_stage = "Production" THEN "keep" ELSE "Production")
    ELSE (IF m.current_stage = "Production" THEN "Archived" ELSE "keep")

\* for m in model_registry_info: ... (st = [reg, calls])
RECURSIVE UpdateLoop(_, _, _, _)
UpdateLoop(st, info, i, latest) ==
    IF i > Len(info) THEN st
    ELSE LET m == info[i]
             to == TargetStage(m, latest)
             st2 == IF to = "keep" THEN st
                    ELSE [reg |-> transition_model_version_stage(st.reg, m.version, to),
                          calls |-> Append(st.calls, <<m.version, to>>)]
         IN UpdateLoop(st2, info, i + 1, latest)

\* 'models:/{0}/{1}'.format(m.name, m.version)
ModelUri(name, version) == <<"models:", name, version>>

\* if m.current_stage == 'Production': prod_run_id = ...; prod_model_id = ...
ProdStep(acc, m) ==
    IF m.current_stage = "Production"
    THEN [prod_run_id |-> m.run_id, prod_model_id |-> ModelUri(m.name, m.version)]
    ELSE acc

\* for m in mlclient.get_latest_versions(...): ...
RECURSIVE ViewLoop(_, _, _)
ViewLoop(acc, info, i) ==
    IF i > Len(info) THEN acc ELSE ViewLoop(ProdStep(acc, info[i]), info, i + 1)

\* update_registered_model_version_stages(mlclient, registered_model_name)
update_registered_model_version_stages ==
    /\ regBefore' = registry
    /\ prevRet' = ret
    /\ prevCalls' = calls
    /\ consecutive' = (ret # NoRet)
    /\ \E info \in get_latest_versions(registry) :
        IF info = <<>>
        THEN \* max([]) raises ValueError
             /\ ret' = [kind |-> "raise", error |-> "ValueError"]
             /\ calls' = <<>>
             /\ UNCHANGED registry
        ELSE LET st == UpdateLoop([reg |-> registry, calls |-> <<>>], info, 1,
                                  model_latest_version(info))
             IN /\ registry' = st.reg
                /\ calls' = st.calls
                /\ \E view \in get_latest_versions(st.reg) :
                      ret' = [kind |-> "return",
                              value |-> ViewLoop([prod_run_id |-> 0, prod_model_id |-> 0],
                                                 view, 1)]

\* The stage updater called on its own.
UpdateStages ==
    update_registered_model_version_stages /\ UNCHANGED <<trainVars, dataVars, concVars>>

\* mlflow.pytorch.log_model(..., registered_model_name=...): a new version, stage None
RegisterVersion(reg, run_id, score) ==
    Append(reg, [stage |-> "None", run_id |-> run_id, score |-> score])

\* Some run of the pipeline registers a new version of the model.
RegisterModel ==
    /\ Len(registry) < MaxVersions
    /\ \E r \in RunIds : registry' = RegisterVersion(registry, r, 0)
    /\ ret' = NoRet
    /\ prevRet' = NoRet
    /\ consecutive' = FALSE
    /\ UNCHANGED <<regBefore, calls, prevCalls, trainVars, dataVars, concVars>>

\* ------------------------------- the stage updater, one registry call at a time
\* An invocation that has not yet read the registry.
InvStart == [pc |-> "start", info |-> <<>>, latest |-> 0, i |-> 0, ret |-> NoRet]

\* model_registry_info = mlclient.get_latest_versions(...); max([...])
ReadVersions(p) ==
    /\ inv[p].pc = "start"
    /\ \E info \in get_latest_versions(registry) :
          inv' = [inv EXCEPT ![p] =
                    IF info = <<>>
                    THEN [@ EXCEPT !.pc = "done",
                                   !.ret = [kind |-> "raise", error |-> "ValueError"]]
                    ELSE [@ EXCEPT !.pc = "loop", !.info = info, !.i = 1,
                                   !.latest = model_latest_version(info)]]
    /\ UNCHANGED <<regVars, trainVars, dataVars>>

\* One iteration of 'for m in model_registry_info': at most one transition call,
\* decided from the entity read at the start of the invocation.
Transition(p) ==
    /\ inv[p].pc = "loop"
    /\ LET m == inv[p].info[inv[p].i]
           to == TargetStage(m, inv[p].latest)
       IN registry' = IF to = "keep" THEN registry
                      ELSE transition_model_version_stage(registry, m.version, to)
    /\ inv' = [inv EXCEPT ![p].i = @ + 1,
                          ![p].pc = IF inv[p].i = Len(inv[p].info) THEN "view" ELSE "loop"]
    /\ UNCHANGED <<histVars, trainVars, dataVars>>

\* The second get_latest_versions call, the view loop and the return.
View(p) ==
    /\ inv[p].pc = "view"
    /\ \E view \in get_latest_versions(registry) :
          inv' = [inv EXCEPT ![p].pc = "done",
                             ![p].ret = [kind |-> "return",
                                         value |-> ViewLoop([prod_run_id |-> 0,
                                                             prod_model_id |-> 0],
                                                            view, 1)]]
    /\ UNCHANGED <<regVars, trainVars, dataVars>>

\* ------------------------------------------------------------ the model wrapper
ClassCounts == {-1, 0, 1, 2}

\* FastRCNNPredictor(in_features, num_classes): two linear layers of num_classes and
\* 4 * num_classes outputs; a negative size is the only one the constructor rejects.
FastRCNNPredictor(num_classes) ==
    IF num_classes < 0 THEN [kind |-> "raise", error |-> "RuntimeError"]
    ELSE [kind |-> "head", cls_score |-> num_classes, bbox_pred |-> 4 * num_classes]

\* faster_rcnn_mob_model_for_n_classes(num_classes): no check of its own.
faster_rcnn_mob_model_for_n_classes(num_classes) ==
    LET box_predictor == FastRCNNPredictor(num_classes)
    IN IF box_predictor.kind = "raise" THEN box_predictor
       ELSE [kind |-> "model", box_predictor |-> box_predictor]

\* ------------------------------------------------------- fine-tuning (run_train)
InitValues == {0, 1}
CkptEpochs == {1, 5}
Scores == 0..MaxScore

CkptRecords == [kind : {"ckpt"}, epoch : CkptEpochs, score : Scores]

\* param_config['object_detection_model']['save_dir']: YAML null, an empty
\* string, or a directory name.
NoDir == "null"
SaveDirs == {NoDir, "", "models"}

Configs ==
    [epochs : 0..MaxEpochs,
     metric_to_find_best : BOOLEAN,      \* a metric name, or None
     initial_metric_value : InitValues,
     save_best_ckpt : BOOLEAN,
     register_best_log_model : BOOLEAN,
     log_metrics : BOOLEAN,
     save_dir : SaveDirs,
     save_model_output_dir : BOOLEAN,    \* save_random_best_model_output_path is set
     lr_scheduler : BOOLEAN,             \* lr_scheduler_name is not None
     checkpoint : BOOLEAN,               \* a checkpoint file name is configured
     num_classes : ClassCounts]

\* A configuration that registers the best model and keeps no files.
RegistrationConfig ==
    [epochs |-> 1, metric_to_find_best |-> TRUE, initial_metric_value |-> 0,
     save_best_ckpt |-> FALSE, register_best_log_model |-> TRUE, log_metrics |-> FALSE,
     save_dir |-> NoDir, save_model_output_dir |-> FALSE, lr_scheduler |-> FALSE,
     checkpoint |-> FALSE, num_classes |-> 2]

\* The configurations a training run is started with: every combination of the
\* training options for a two-class model, and the registration configuration
\* for every class count (the model wrapper takes nothing but num_classes).
TrainConfigs ==
    {c \in Configs :
        c.num_classes = 2 \/ c = [RegistrationConfig EXCEPT !.num_classes = c.num_classes]}

\* save_best_model_weights_path = project_path / save_dir if save_dir else None
HasWeightsPath(c) == c.save_dir \notin {NoDir, ""}

\* if TRAIN_EVAL_PARAMS['checkpoint']:
\*     checkpoint_path = project_path / save_dir / TRAIN_EVAL_PARAMS['checkpoint']
\*     checkpoint = torch.load(checkpoint_path) if checkpoint_path.exists() else None
\* A path cannot be joined with None.
LoadCheckpoint(c, file) ==
    IF c.checkpoint
    THEN (IF c.save_dir = NoDir THEN [kind |-> "raise", error |-> "TypeError"]
          ELSE IF file # NoFile THEN file ELSE None)
    ELSE None

\* Variant: the checkpoint's epoch is ignored.
StartEpoch_Zero(ckpt) == 0

\* start_epoch = 0; if checkpoint is not None: start_epoch = checkpoint['epoch']
StartEpoch(ckpt) == IF ckpt # None THEN ckpt.epoch ELSE 0

\* Variant: the checkpoint's stored score is not restored.
StartScore_IgnoresCheckpoint(c, ckpt) == c.initial_metric_value

\* best_epoch_score = init_metric_value; with a checkpoint: its stored score
\* if metric_to_find_best_model else 0.0
StartScore(c, ckpt) ==
    IF ckpt # None
    THEN (IF c.metric_to_find_best THEN ckpt.score ELSE 0)
    ELSE c.initial_metric_value

\* Variant: <= in place of <.
Improved_OrEqual(best, score) == best <= score

\* if best_epoch_score < eval_res['epoch_scores'][metric_to_find_best_model]
Improved(best, score) == best < score

Opt(flag, step) == IF flag THEN <<step>> ELSE <<>>

\* Variant: the model is evaluated before it is trained.
EpochSteps_EvalFirst(c, improved) ==
    <<"eval">> \o Opt(c.lr_scheduler, "lr_scheduler_step") \o <<"train">>
    \o (IF c.metric_to_find_best
        THEN <<"compare">>
             \o (IF improved
                 THEN Opt(c.register_best_log_model, "register")
                      \o Opt(HasWeightsPath(c), IF c.save_best_ckpt THEN "save_ckpt"
                                                            ELSE "save_weights")
                      \o Opt(c.save_model_output_dir, "image")
                 ELSE <<>>)
             \o Opt(c.log_metrics, "log_metrics")
        ELSE <<>>)

\* The steps of one loop iteration, in program order.
EpochSteps(c, improved) ==
    <<"train">> \o Opt(c.lr_scheduler, "lr_scheduler_step") \o <<"eval">>
    \o (IF c.metric_to_find_best
        THEN <<"compare">>
             \o (IF improved
                 THEN Opt(c.register_best_log_model, "register")
                      \o Opt(HasWeightsPath(c), IF c.save_best_ckpt THEN "save_ckpt"
                                                            ELSE "save_weights")
                      \o Opt(c.save_model_output_dir, "image")
                 ELSE <<>>)
             \o Opt(c.log_metrics, "log_metrics")
        ELSE <<>>)

\* mlflow.log_metric / log_metrics(..., step=current_epoch): what one epoch logs
LoggedMetrics(logs, current_epoch) ==
    IF logs
    THEN <<[key |-> "train_epoch_loss", step |-> current_epoch],
           [key |-> "epoch_dict_losses", step |-> current_epoch],
           [key |-> "epoch_scores", step |-> current_epoch]>>
    ELSE <<>>

\* What is kept of a finished call: each epoch's number and whether it wrote the
\* checkpoint file.
EpochsOf(evs) ==
    [i \in 1..Len(evs) |->
        [epoch |-> evs[i].epoch,
         saved |-> \E k \in 1..Len(evs[i].steps) : evs[i].steps[k] = "save_ckpt"]]

\* main up to the first loop iteration of run_train.
Main ==
    /\ pc \in {"idle", "staged"}
    /\ run < MaxRuns
    /\ model' = faster_rcnn_mob_model_for_n_classes(cfg.num_classes)
    /\ ckptExisted' = (ckptFile # NoFile)
    /\ LET ckpt == LoadCheckpoint(cfg, ckptFile)
       IN IF model'.kind = "raise"
          THEN /\ pc' = "error"
               /\ error' = model'.error
               /\ UNCHANGED <<run, checkpoint, start_epoch, best_epoch_score, epoch, events,
                              prevEpochs>>
          ELSE IF ckpt.kind = "raise"
          THEN /\ pc' = "error"
               /\ error' = ckpt.error
               /\ UNCHANGED <<run, checkpoint, start_epoch, best_epoch_score, epoch, events,
                              prevEpochs>>
          ELSE /\ pc' = "loop"
               /\ error' = "no"
               /\ run' = run + 1
               /\ checkpoint' = ckpt
               /\ start_epoch' = StartEpoch(ckpt)
               /\ best_epoch_score' = StartScore(cfg, ckpt)
               /\ epoch' = 0
               /\ events' = <<>>
               /\ prevEpochs' = EpochsOf(events)
    /\ UNCHANGED <<cfg, ckptFile, regVars, dataVars, concVars>>

\* One iteration of "for epoch in range(1, epochs + 1)".
Epoch ==
    /\ pc = "loop"
    /\ epoch < cfg.epochs
    /\ \E score \in Scores :
        LET current_epoch == start_epoch + (epoch + 1)
            improved == cfg.metric_to_find_best /\ Improved(best_epoch_score, score)
            steps == EpochSteps(cfg, improved)
            did(step) == \E i \in 1..Len(steps) : steps[i] = step
        IN /\ epoch' = epoch + 1
           /\ best_epoch_score' = IF improved THEN score ELSE best_epoch_score
           /\ registry' = IF did("register") THEN RegisterVersion(registry, run, score)
                          ELSE registry
           /\ ckptFile' = IF did("save_ckpt")
                          THEN [kind |-> "ckpt", epoch |-> current_epoch,
                                score |-> best_epoch_score']
                          ELSE ckptFile
           /\ events' = Append(events, [epoch |-> current_epoch, score |-> score,
                                        steps |-> steps,
                                        logged |-> LoggedMetrics(did("log_metrics"),
                                                                 current_epoch)])
    /\ UNCHANGED <<cfg, pc, error, run, model, checkpoint, ckptExisted, start_epoch,
                   prevEpochs, histVars, dataVars, concVars>>

\* The loop is over: return {'train_res': train_res, 'eval_res': eval_res}, which
\* are unbound when the loop body never ran.
Return ==
    /\ pc = "loop"
    /\ epoch = cfg.epochs
    /\ IF cfg.epochs = 0
       THEN pc' = "error" /\ error' = "UnboundLocalError"
       ELSE pc' = "done" /\ UNCHANGED error
    /\ UNCHANGED <<cfg, ckptFile, run, model, checkpoint, ckptExisted, start_epoch,
                   best_epoch_score, epoch, events, prevEpochs, regVars, dataVars,
                   concVars>>

\* One invocation of the fine-tune main, under any configuration.
InitTrain ==
    /\ cfg \in TrainConfigs
    /\ ckptFile \in {NoFile} \cup CkptRecords
    /\ TrainIdle
    /\ RegIdle
    /\ DataIdle
    /\ ConcIdle

NextTrain == Main \/ Epoch \/ Return

SpecTrain == InitTrain /\ [][NextTrain]_vars

\* ------------------------------------------------------ properties of a training run
Entered == pc \in {"loop", "done"} \/ (pc = "error" /\ error = "UnboundLocalError")
Finished == pc = "done" \/ (pc = "error" /\ error = "UnboundLocalError")
Has(steps, step) == \E i \in 1..Len(steps) : steps[i] = step
HasArtifact(ev) ==
    \/ Has(ev.steps, "register")
    \/ Has(ev.steps, "save_ckpt")
    \/ Has(ev.steps, "save_weights")
    \/ Has(ev.steps, "image")
GivenEpoch == IF checkpoint # None THEN checkpoint.epoch ELSE 0
GivenScore == IF checkpoint # None THEN checkpoint.score ELSE cfg.initial_metric_value
Larger(a, b) == IF a < b THEN b ELSE a
RECURSIVE BestBefore(_)
BestBefore(i) == IF i = 1 THEN GivenScore ELSE Larger(BestBefore(i - 1), events[i - 1].score)

\* C3: run_train given a checkpoint of epoch E and N requested epochs runs exactly
\* N train/evaluate epochs, numbered E+1 .. E+N in order (E = 0 without a checkpoint).
C3_EpochNumbering ==
    Entered =>
        /\ \A i \in 1..Len(events) :
              /\ events[i].epoch = GivenEpoch + i
              /\ Has(events[i].steps, "train")
              /\ Has(events[i].steps, "eval")
        /\ Len(events) <= cfg.epochs
        /\ Finished => Len(events) = cfg.epochs

C3_Witness ==
    /\ pc = "done"
    /\ checkpoint # None
    /\ checkpoint.epoch = 5
    /\ cfg.epochs = 2
    /\ events[1].epoch = 6
    /\ events[2].epoch = 7

\* C4: with a best-model metric configured, an epoch produces an artifact (saved
\* weights or checkpoint, registered model, sample image) only if its score is
\* strictly greater than the best score seen before it.
C4_ArtifactOnlyOnImprovement ==
    \A i \in 1..Len(events) :
        HasArtifact(events[i]) =>
            cfg.metric_to_find_best /\ events[i].score > BestBefore(i)

C4_Witness ==
    /\ cfg.register_best_log_model /\ HasWeightsPath(cfg) /\ cfg.save_model_output_dir
    /\ Len(events) = 2
    /\ HasArtifact(events[1])
    /\ events[2].score = BestBefore(2)
    /\ events[2].score > 0
    /\ ~HasArtifact(events[2])

\* C7: faster_rcnn_mob_model_for_n_classes returns a model exactly when
\* num_classes >= 2 and fails for every smaller num_classes.
C7_FailsBelowTwoClasses ==
    pc # "idle" => (model.kind = "model" <=> cfg.num_classes >= 2)

\* C8: a configured checkpoint file that does not exist raises no error; run_train
\* gets no checkpoint, numbers its first epoch 1 and starts the best score at the
\* configured initial metric value.
C8_MissingCheckpointFromScratch ==
    (pc # "idle" /\ cfg.checkpoint /\ ~ckptExisted) =>
        /\ error # "FileNotFoundError"
        /\ model.kind = "model" => Entered
        /\ Entered =>
              /\ checkpoint = None
              /\ start_epoch = 0
              /\ epoch = 0 => best_epoch_score = cfg.initial_metric_value
              /\ events # <<>> => events[1].epoch = 1
              /\ (events # <<>> /\ cfg.metric_to_find_best) =>
                    (Has(events[1].steps, "compare")
                     /\ (HasArtifact(events[1]) =>
                            events[1].score > cfg.initial_metric_value))

\* Position of a step in the per-epoch order.
Rank(step) ==
    CASE step = "train" -> 1
      [] step = "lr_scheduler_step" -> 2
      [] step = "eval" -> 3
      [] step = "compare" -> 4
      [] step \in {"register", "save_ckpt", "save_weights", "image"} -> 5
      [] step = "log_metrics" -> 6

InOrder(steps) ==
    \A a, b \in 1..Len(steps) :
        a < b => /\ steps[a] # steps[b]
                 /\ Rank(steps[a]) <= Rank(steps[b])
                 /\ Rank(steps[a]) = Rank(steps[b]) => Rank(steps[a]) = 5

\* C11: in every epoch the steps run in the order train, scheduler step (only if
\* a scheduler is configured), evaluate, compare, artifact actions (only if
\* improved), metric logging (only if enabled); epochs follow one another.
C11_StepOrder ==
    /\ \A i \in 1..Len(events) :
          LET st == events[i].steps
          IN /\ InOrder(st)
             /\ st[1] = "train"
             /\ Has(st, "eval")
             /\ Has(st, "lr_scheduler_step") => cfg.lr_scheduler
             /\ HasArtifact(events[i]) =>
                   (Has(st, "compare") /\ events[i].score > BestBefore(i))
             /\ Has(st, "log_metrics") => cfg.log_metrics
    /\ \A i, j \in 1..Len(events) : i < j => events[i].epoch < events[j].epoch

C11_Witness ==
    /\ Len(events) = 2
    /\ events[1].steps = <<"train", "lr_scheduler_step", "eval", "compare", "register",
                           "save_ckpt", "image", "log_metrics">>
    /\ events[2].steps = <<"train", "lr_scheduler_step", "eval", "compare", "log_metrics">>

\* C12: with log_metrics true, every epoch logs the training loss, the loss
\* components and the evaluation scores exactly once, with step = the epoch's
\* number, whether or not a best-model metric is configured.
C12_LogsEveryEpoch ==
    cfg.log_metrics =>
        \A i \in 1..Len(events) :
            events[i].logged = LoggedMetrics(TRUE, GivenEpoch + i)

\* C14: with a best-model metric configured, the best score after every epoch is
\* the maximum of the starting value and the scores so far (so it never
\* decreases), and a checkpoint saved by the run stores the epoch number and the
\* evaluation score of one and the same epoch.
Saves == {i \in 1..Len(events) : Has(events[i].steps, "save_ckpt")}
LastSave == CHOOSE i \in Saves : \A j \in Saves : j <= i

C14_BestIsMaximum ==
    (cfg.metric_to_find_best /\ Entered) =>
        /\ best_epoch_score = BestBefore(Len(events) + 1)
        /\ \A i \in 1..Len(events) : BestBefore(i) <= BestBefore(i + 1)
        /\ Saves # {} =>
              /\ ckptFile.kind = "ckpt"
              /\ ckptFile.epoch = events[LastSave].epoch
              /\ ckptFile.score = events[LastSave].score
              /\ ckptFile.score = BestBefore(LastSave + 1)

C14_Witness ==
    /\ cfg.metric_to_find_best
    /\ pc = "done"
    /\ checkpoint # None /\ checkpoint.score = 1 /\ checkpoint.epoch = 5
    /\ Len(events) = 2
    /\ events[1].score = 2
    /\ events[2].score = 0
    /\ best_epoch_score = 2
    /\ ckptFile = [kind |-> "ckpt", epoch |-> 6, score |-> 2]

\* ------------------------------------------------------------ the dataset adapter
Boxes == {<<0, 0, 1, 2>>, <<1, 2, 2, 1>>}       \* bbox_x, bbox_y, bbox_width, bbox_height
ImageNames == 1..NumImages
BBoxRows == [image_name : ImageNames, bbox : Boxes]

Datasets ==
    [img_df : {[i \in 1..NumImages |-> i]},
     bbox_df : UNION {[1..n -> BBoxRows] : n \in 0..MaxRows},
     img_transforms : BOOLEAN,          \* an augmentation pipeline is configured
     bbox_transform : BOOLEAN]          \* (box_convert, 'xywh', 'xyxy') is configured

\* bbox_df.loc[bbox_df.image_name == img_name, [...]].values, in row order
RECURSIVE BoxesOf(_, _, _)
BoxesOf(bbox_df, img_name, i) ==
    IF i > Len(bbox_df) THEN <<>>
    ELSE (IF bbox_df[i].image_name = img_name THEN <<bbox_df[i].bbox>> ELSE <<>>)
         \o BoxesOf(bbox_df, img_name, i + 1)

\* torch.ones((bboxes.shape[0],), dtype=torch.int64)
Ones(n) == [i \in 1..n |-> 1]

\* box_convert(boxes, 'xywh', 'xyxy')
box_convert(bboxes) ==
    [i \in 1..Len(bboxes) |->
        <<bboxes[i][1], bboxes[i][2], bboxes[i][1] + bboxes[i][3], bboxes[i][2] + bboxes[i][4]>>]

\* The boxes the augmentation pipeline hands back: those of the kept positions
\* (the pipeline may drop boxes; aug['labels'] holds the labels of the kept ones).
\* The pixel geometry of the transforms is left out: only which boxes survive.
RECURSIVE Kept(_, _, _)
Kept(seq, keep, i) ==
    IF i > Len(seq) THEN <<>>
    ELSE (IF i \in keep THEN <<seq[i]>> ELSE <<>>) \o Kept(seq, keep, i + 1)

\* ImageBBoxDataset.__getitem__(idx) when the pipeline keeps the positions in keep
getitem(ds, idx, keep) ==
    IF idx >= Len(ds.img_df) THEN [kind |-> "raise", error |-> "IndexError"]
    ELSE LET img_name == ds.img_df[idx + 1]
             bboxes == BoxesOf(ds.bbox_df, img_name, 1)
             labels == Ones(Len(bboxes))
             aug_bboxes == IF ds.img_transforms THEN Kept(bboxes, keep, 1) ELSE bboxes
             out_bboxes == IF ds.bbox_transform THEN box_convert(aug_bboxes) ELSE aug_bboxes
         IN [kind |-> "item", idx |-> idx, image |-> img_name,
             target |-> [boxes |-> out_bboxes, labels |-> labels]]

GetItem ==
    /\ \E idx \in 0..NumImages :
        \E keep \in SUBSET (1..MaxRows) :
            /\ ~dataset.img_transforms => keep = 1..MaxRows
            /\ item' = getitem(dataset, idx, keep)
    /\ UNCHANGED <<dataset, regVars, trainVars, concVars>>

InitData ==
    /\ dataset \in Datasets
    /\ item = None
    /\ cfg = RegistrationConfig
    /\ ckptFile = NoFile
    /\ TrainIdle
    /\ RegIdle
    /\ ConcIdle

NextData == GetItem

SpecData == InitData /\ [][NextData]_vars

\* C6: for every valid index, dataset[idx] gives a target whose boxes and labels
\* have the same length, with and without an augmentation pipeline.
C6_BoxesMatchLabels ==
    item.kind = "item" => Len(item.target.boxes) = Len(item.target.labels)

\* --------------------------------------------------------------- the pipeline
\* update_model_stages.main, run after a fine-tuning run
update_model_stages_main ==
    /\ pc = "done"
    /\ pc' = "staged"
    /\ update_registered_model_version_stages
    /\ UNCHANGED <<cfg, ckptFile, error, run, model, checkpoint, ckptExisted, start_epoch,
                   best_epoch_score, epoch, events, prevEpochs, dataVars, concVars>>

\* Fine-tuning runs that register their best models, from an empty registry.
PipelineConfigs ==
    {c \in Configs : /\ c.register_best_log_model /\ c.metric_to_find_best
                     /\ c.epochs >= 1 /\ c.num_classes = 2
                     /\ ~c.lr_scheduler /\ ~c.log_metrics /\ ~c.save_model_output_dir}

InitPipe ==
    /\ cfg \in PipelineConfigs
    /\ ckptFile = NoFile
    /\ TrainIdle
    /\ RegIdle
    /\ DataIdle
    /\ ConcIdle

NextPipe == Main \/ Epoch \/ Return \/ update_model_stages_main

SpecPipe == InitPipe /\ [][NextPipe]_vars

Staged == pc = "staged" /\ Updated
ScoreOf(v) == registry[v].score

\* C5: after fine-tuning runs with registration enabled, each followed by the
\* stage updater, the Production version has the highest evaluation score of all
\* registered versions.
C5_ProductionIsBestScore ==
    Staged => \A v \in ProductionVersions(registry) :
                 \A w \in Versions(registry) : ScoreOf(w) <= ScoreOf(v)

\* C5 (amended): the updater leaves exactly the latest registered version in
\* Production, and its score is the highest among the versions its run registered.
C5_ProductionIsLatest ==
    Staged =>
        /\ ProductionVersions(registry) = {Len(registry)}
        /\ \A w \in Versions(registry) :
              registry[w].run_id = registry[Len(registry)].run_id
                  => ScoreOf(w) <= ScoreOf(Len(registry))

C5_Witness ==
    /\ Staged
    /\ run = 2
    /\ Len(registry) = 3
    /\ registry[1].run_id = 1 /\ registry[2].run_id = 2 /\ registry[3].run_id = 2
    /\ ScoreOf(2) < ScoreOf(3)
    /\ ProductionVersions(registry) = {3}

\* The second of two run_train calls resumed from the checkpoint the first saved.
PrevSaves == {i \in 1..Len(prevEpochs) : prevEpochs[i].saved}
LastPrevSave == CHOOSE i \in PrevSaves : \A j \in PrevSaves : j <= i
Resumed ==
    /\ pc \in {"loop", "done", "staged"}
    /\ cfg.save_best_ckpt
    /\ PrevSaves # {}
    /\ checkpoint # None

\* C13: when a second run_train call resumes from the last checkpoint the first
\* call saved, every epoch number of the second call is greater than every epoch
\* number of the first call.
C13_NoEpochNumberTwice ==
    Resumed => \A i \in 1..Len(events) : \A j \in 1..Len(prevEpochs) :
                  events[i].epoch > prevEpochs[j].epoch

\* C13 (amended): the second call numbers its epochs from the epoch stored in the
\* checkpoint, that of the first call's last improving epoch; its epoch numbers
\* are greater than those of the first call up to and including that epoch. Of
\* the numbers the first call used after that epoch, the second call has used
\* again, after n epochs, exactly those not above the checkpoint's epoch plus n;
\* so its first epoch repeats a number whenever the first call ran past its last
\* improving epoch.
C13_ContinuesFromCheckpoint ==
    Resumed =>
        /\ checkpoint.epoch = prevEpochs[LastPrevSave].epoch
        /\ \A i \in 1..Len(events) :
              /\ events[i].epoch = checkpoint.epoch + i
              /\ \A j \in 1..LastPrevSave : events[i].epoch > prevEpochs[j].epoch
        /\ \A j \in (LastPrevSave + 1)..Len(prevEpochs) :
              (\E i \in 1..Len(events) : events[i].epoch = prevEpochs[j].epoch)
                  <=> prevEpochs[j].epoch <= checkpoint.epoch + Len(events)
        /\ (LastPrevSave < Len(prevEpochs) /\ events # <<>>) =>
              events[1].epoch = prevEpochs[LastPrevSave + 1].epoch

C13_Witness ==
    /\ Resumed
    /\ pc = "done"
    /\ Len(prevEpochs) = 2
    /\ LastPrevSave = 1
    /\ Len(events) = 2
    /\ events[1].epoch = prevEpochs[2].epoch
    /\ events[2].epoch = 3

\* A registry in any condition: other clients may have staged versions freely.
RegistryStates ==
    UNION {[1..n -> [stage : Stages, run_id : RunIds, score : {0}]] : n \in 0..MaxVersions}

InitReg ==
    /\ registry \in RegistryStates
    /\ regBefore = registry
    /\ calls = <<>>
    /\ ret = NoRet
    /\ prevRet = NoRet
    /\ prevCalls = <<>>
    /\ consecutive = FALSE
    /\ cfg = RegistrationConfig
    /\ ckptFile = NoFile
    /\ TrainIdle
    /\ DataIdle
    /\ ConcIdle

NextReg == UpdateStages \/ RegisterModel

SpecReg == InitReg /\ [][NextReg]_vars

\* ------------------------------------------------ properties of the stage updater
\* C1: after update_registered_model_version_stages returns, the maximum version
\* is in Production and no other version is in Production, whatever the stages
\* were before the call.
C1_OnlyMaxInProduction ==
    Updated => ProductionVersions(registry) = {Len(registry)}

\* C2: a stage update that directly follows another one (no version registered
\* in between) issues no transition call, leaves every stage as it was and
\* returns what the first one returned.
C2_Idempotent ==
    consecutive => /\ calls = <<>>
                   /\ registry = regBefore
                   /\ ret = prevRet

C2_Witness ==
    /\ consecutive
    /\ Updated
    /\ Len(prevCalls) = 2
    /\ calls = <<>>

\* C9: for a non-empty registry the update returns the run id of the maximum
\* version and the URI models:/<name>/<max version>, never the placeholder (0, 0).
C9_ReturnsMaxVersion ==
    (ret # NoRet /\ Len(registry) > 0) =>
        /\ Updated
        /\ ret.value.prod_run_id = registry[Len(registry)].run_id
        /\ ret.value.prod_model_id = ModelUri(RegName, Len(registry))
        /\ ret.value # [prod_run_id |-> 0, prod_model_id |-> 0]

C9_Witness ==
    /\ Updated
    /\ Len(registry) = 3
    /\ registry[1].run_id # registry[3].run_id
    /\ regBefore[1].stage = "Production"
    /\ ret.value.prod_run_id = registry[3].run_id

\* C10: the update removes no version and changes nothing but stages; a version
\* that is neither the maximum nor in Production before the call keeps its stage.
C10_Frame ==
    ret # NoRet =>
        /\ Len(registry) = Len(regBefore)
        /\ \A v \in Versions(registry) :
              /\ registry[v].run_id = regBefore[v].run_id
              /\ registry[v].score = regBefore[v].score
              /\ (v # Len(registry) /\ regBefore[v].stage # "Production")
                    => registry[v].stage = regBefore[v].stage

C10_Witness ==
    /\ Updated
    /\ Len(calls) = 2
    /\ Len(registry) = 3
    /\ regBefore[1].stage = "Staging"
    /\ registry[1].stage = "Staging"

\* ------------------------------------------ one stage update, call by call
\* Registries with at most one version in Production.
StepRegistryStates ==
    {reg \in RegistryStates :
        /\ Cardinality(ProductionVersions(reg)) <= 1
        /\ \A v \in Versions(reg) : reg[v].run_id = 1}

\* Those that use the stages of the pipeline only: none, production, archived.
ConcRegistryStates ==
    {reg \in StepRegistryStates : \A v \in Versions(reg) : reg[v].stage # "Staging"}

InitStep ==
    /\ registry \in StepRegistryStates
    /\ regBefore = registry
    /\ calls = <<>>
    /\ ret = NoRet
    /\ prevRet = NoRet
    /\ prevCalls = <<>>
    /\ consecutive = FALSE
    /\ cfg = RegistrationConfig
    /\ ckptFile = NoFile
    /\ TrainIdle
    /\ DataIdle
    /\ inv = [p \in {1} |-> InvStart]

NextStep == ReadVersions(1) \/ Transition(1) \/ View(1)

SpecStep == InitStep /\ [][NextStep]_vars

\* The listed position of version v in the list invocation p read (0: not listed).
Position(p, v) ==
    IF \E k \in 1..Len(inv[p].info) : inv[p].info[k].version = v
    THEN CHOOSE k \in 1..Len(inv[p].info) : inv[p].info[k].version = v
    ELSE 0

\* C15: during one run of the update that starts with at most one version in
\* Production, at most one version is in Production in every registry state
\* between its transition calls, for every order of the version list.
C15_AtMostOneProductionThroughout ==
    Cardinality(ProductionVersions(registry)) <= 1

\* C15 (amended): at most two versions are in Production between the transition
\* calls; two only while the maximum version, listed before the version that was
\* in Production at the start, is promoted and that version not yet archived;
\* once the loop is over only the maximum version is in Production.
C15_AtMostTwoUntilArchived ==
    /\ Cardinality(ProductionVersions(registry)) <= 2
    /\ Cardinality(ProductionVersions(registry)) = 2 =>
          /\ inv[1].pc = "loop"
          /\ inv[1].latest \in ProductionVersions(registry)
          /\ \E old \in ProductionVersions(regBefore) :
                /\ ProductionVersions(registry) = {old, inv[1].latest}
                /\ Position(1, inv[1].latest) < inv[1].i
                /\ inv[1].i <= Position(1, old)
    /\ (inv[1].pc \in {"view", "done"} /\ inv[1].info # <<>>) =>
          ProductionVersions(registry) = {Len(registry)}

C15_Witness ==
    /\ inv[1].pc = "loop"
    /\ Len(registry) = 3
    /\ ProductionVersions(regBefore) = {2}
    /\ ProductionVersions(registry) = {2, 3}

\* --------------------------- two stage updates and a registration, interleaved
InitConc ==
    /\ registry \in ConcRegistryStates
    /\ regBefore = registry
    /\ calls = <<>>
    /\ ret = NoRet
    /\ prevRet = NoRet
    /\ prevCalls = <<>>
    /\ consecutive = FALSE
    /\ cfg = RegistrationConfig
    /\ ckptFile = NoFile
    /\ TrainIdle
    /\ DataIdle
    /\ inv = [p \in {1, 2} |-> InvStart]

NextConc ==
    \/ \E p \in {1, 2} : ReadVersions(p)
    \/ \E p \in {1, 2} : Transition(p)
    \/ \E p \in {1, 2} : View(p)
    \/ RegisterModel

SpecConc == InitConc /\ [][NextConc]_vars

BothFinished == \A p \in DOMAIN inv : inv[p].pc = "done"
Returned == {p \in DOMAIN inv : inv[p].ret.kind = "return"}
LatestRead == {inv[p].latest : p \in Returned}

\* C16: once two interleaved invocations (and a registration) have finished, at
\* most one version is in Production and it is the maximum registered version.
C16_OneProductionAndMaximum ==
    (BothFinished /\ Returned # {}) =>
        /\ Cardinality(ProductionVersions(registry)) <= 1
        /\ \A v \in ProductionVersions(registry) : v = Len(registry)

\* C16 (amended): once both have finished, every version in Production is the
\* maximum of the list one of the invocations read (so at most two are), the
\* larger of those maxima is in Production, and when both read the same maximum
\* it alone is in Production; a version registered after the reads is not promoted.
C16_ProductionIsAMaximumRead ==
    (BothFinished /\ Returned # {}) =>
        /\ ProductionVersions(registry) \subseteq LatestRead
        /\ \E v \in LatestRead :
              /\ \A w \in LatestRead : w <= v
              /\ v \in ProductionVersions(registry)
        /\ \A v \in LatestRead : v <= Len(registry)

C16_Witness ==
    /\ BothFinished
    /\ Returned = {1, 2}
    /\ Len(registry) = 3
    /\ ProductionVersions(registry) = {1, 2}
    /\ inv[1].latest = 1
    /\ inv[2].latest = 2

====
